---- MODULE Spec2Model ----
(***************************************************************************)
(* node-opfs: one file entry of the root directory, the Writable Stream    *)
(* (FileSystemWritableFileStream) and the Sync Access Handle               *)
(* (FileSystemSyncAccessHandle) that a File Handle spawns on it.           *)
(*                                                                         *)
(* Every call is awaited by its caller before the next call is issued, so  *)
(* each handler is one action.  The one step the code leaves to the host's *)
(* scheduler is the stream's deferred open (_init), which is its own       *)
(* action: calls on other objects may run between createWritable and the   *)
(* completion of that open.                                                *)
(*                                                                         *)
(* Host assumption: an entry is not unlinked while a descriptor is open on *)
(* it (what an orphaned descriptor does is host specific).                 *)
(***************************************************************************)
EXTENDS Integers, Sequences, FiniteSets, TLC

\* ---------------------------------------------------------------- bounds
MaxLen  == 3      \* largest file length explored
MaxData == 2      \* largest buffer handed to one write or read
MaxByte == 1      \* byte values explored: 0..MaxByte
Many    == 2      \* the write counter of the history saturates here

Undefined == -1   \* an omitted numeric option (position, size, at)

Byte  == 0..MaxByte
Data  == UNION {[1..n -> Byte] : n \in 0..MaxData}
Pos   == 0..MaxLen
OptPos == Pos \cup {Undefined}

Max(a, b) == IF a >= b THEN a ELSE b
Min(a, b) == IF a <= b THEN a ELSE b

VARIABLES
  exists,    \* an entry is linked at the file's path
  content,   \* its bytes (<<>> while no entry is linked)
  handle,    \* the caller holds a FileSystemFileHandle for the path
  stream,    \* the FileSystemWritableFileStream object
  sah,       \* the FileSystemSyncAccessHandle object
  last,      \* the call that completed last: its arguments and outcome
  hist,      \* history of the current stream (for stating the properties)
  tree,      \* the entries below the root directory, by path
  held,      \* names of the root's subdirectories a Directory Handle exists for
  call,      \* the Directory Handle call in progress, or the one completed last
  nav,       \* two handles reached by lookups, and the last resolve() on them
  inode,     \* the inode number the host gave each entry of the tree
  same,      \* the isSameEntry call in progress, or the one completed last
  mtime,     \* the file's modification time, as a count of modifications
  snap,      \* the getFile call in progress, or the one completed last
  iter,      \* the iterators keys(), values(), entries() returned
  ops        \* the stream's write, truncate and close calls, by await

fileVars == <<exists, content, handle, stream, sah, last, hist>>
dirVars  == <<tree, held, call>>
restVars == <<nav, inode, same, mtime, snap, iter, ops>>
vars == <<exists, content, handle, stream, sah, last, hist, tree, held, call,
          nav, inode, same, mtime, snap, iter, ops>>

\* ------------------------------------------------------- host filesystem
\* positional write of buf at offset pos; a gap past end-of-file reads zero
FsWrite(c, buf, pos) ==
  IF Len(buf) = 0 THEN c
  ELSE [i \in 1..Max(Len(c), pos + Len(buf)) |->
          IF i > pos /\ i <= pos + Len(buf) THEN buf[i - pos]
          ELSE IF i <= Len(c) THEN c[i] ELSE 0]

\* ftruncate: shrinking drops the tail, growing appends zero bytes
FsTruncate(c, n) ==
  [i \in 1..n |-> IF i <= Len(c) THEN c[i] ELSE 0]

\* positional read of up to n bytes at offset pos
FsRead(c, n, pos) ==
  [i \in 1..Min(n, Max(0, Len(c) - pos)) |-> c[pos + i]]

\* ------------------------------------------------------------ the values
NoArg == [type |-> "none", kind |-> "bytes", position |-> Undefined,
          data |-> <<>>, size |-> Undefined]

\* a completed call: its name, outcome, argument, returned bytes, returned
\* number, the number of host filesystem calls it issued, and the tag of the
\* write() that succeeded directly before it ("none" when there is none)
Call(op, res, arg, out, n, fs) ==
  [op |-> op, res |-> res, arg |-> arg, out |-> out, n |-> n, fs |-> fs,
   prev |-> IF last.res = "ok" THEN last.arg.type ELSE "none"]

\* the arguments write() is given: raw data, or one of the tagged forms
\* (data of kind "bytes" is a string or a buffer; a Blob carries no bytes here)
RawArgs   == {[NoArg EXCEPT !.type = "raw", !.data = d] : d \in Data}
               \cup {[NoArg EXCEPT !.type = "raw", !.kind = "blob"]}
WriteArgs == {[NoArg EXCEPT !.type = "write", !.data = d, !.position = p] :
                d \in Data, p \in OptPos}
               \cup {[NoArg EXCEPT !.type = "write", !.kind = "blob"]}
SeekArgs  == {[NoArg EXCEPT !.type = "seek", !.position = p] : p \in OptPos}
TruncArgs == {[NoArg EXCEPT !.type = "truncate", !.size = n] : n \in OptPos}
OtherArgs == {[NoArg EXCEPT !.type = "other"]}
Args      == RawArgs \cup WriteArgs \cup SeekArgs \cup TruncArgs \cup OtherArgs

NoStream == [init |-> "none", fd |-> "null", closed |-> FALSE,
             position |-> 0, keepExistingData |-> FALSE]
\* the access handle: its descriptor and the descriptor's file offset, with
\*   released  host close() calls on the descriptor
\*   moved     bytes transferred so far by position-omitted reads and writes
\*   pending   host requests issued on the descriptor and not yet executed
MaxPending == 2   \* largest number of host requests in flight
NoSah    == [fd |-> "null", closed |-> FALSE, offset |-> 0, released |-> 0,
             moved |-> 0, pending |-> <<>>]
\* history of the current stream:
\*   prior    the file held bytes when createWritable was called
\*   pure     every operation that succeeded so far was a position-omitted write
\*   alone    nothing but this stream changed the file since createWritable
\*   nwrites  the number of those writes (while pure)
\*   written  their data, in call order (kept for a default stream while
\*            pure and alone)
\*   syncs, closes  host sync() and close() calls on the stream's descriptor
NoHist   == [prior |-> FALSE, written |-> <<>>, nwrites |-> 0, pure |-> TRUE,
             alone |-> TRUE, syncs |-> 0, closes |-> 0]

\* another object changed the file: the stream's history is no longer alone
Disturbed == [hist EXCEPT !.alone = FALSE, !.written = <<>>]

\* ------------------------------------------------- the directory tree
\* entries of the root directory and of its subdirectories
TopNames == {"a", "b"}
SubNames == {"c"}
Root     == <<>>
Paths    == {<<n>> : n \in TopNames} \cup {<<n, m>> : n \in TopNames, m \in SubNames}
DirPaths == {Root} \cup {<<n>> : n \in TopNames}

\* an entry: nothing, a regular file with its bytes, or a directory
Absent       == [kind |-> "none", content |-> <<>>]
EmptyFile    == [kind |-> "file", content |-> <<>>]
WrittenFile  == [kind |-> "file", content |-> <<1>>]
Directory    == [kind |-> "directory", content |-> <<>>]
\* an entry the host refuses every call on (permission denied)
Locked       == [kind |-> "locked", content |-> <<>>]

\* path.join(this._path, name)
Join(dir, name) == Append(dir, name)
NamesIn(dir) == IF dir = Root THEN TopNames ELSE SubNames

\* the handle a lookup returns
NoHandle == [kind |-> "none", name |-> "", path |-> Root]
Handle(kind, name, path) == [kind |-> kind, name |-> name, path |-> path]

\* a Directory Handle call: the method, the handle's path, the name, the
\* create/recursive option, the await it stands at, its outcome, and
\*   st      what its first stat reported
\*   from    the await it completed last
\*   kids    the names its first stat found beneath the entry
\*   parent  the handle's directory existed at each of its host calls
\*   others  what other actors did to the tree since the call began
NoCall == [op |-> "none", dir |-> Root, name |-> "a", flag |-> FALSE,
           pc |-> "idle", st |-> "none", from |-> "none", kids |-> {},
           res |-> "none", ret |-> NoHandle,
           parent |-> TRUE, others |-> {}]

\* ------------------------------------------------------- paths as text
\* a path or a name is the sequence of its characters
Sep == "/"
BaseDir == <<Sep, "r">>
PlainNames == {<<"a">>, <<"a", "b">>}
OddNames == {<<>>, <<".", ".">>, <<"a", Sep>>, <<"a", Sep, "b">>}
NameArgs == PlainNames \cup OddNames
RootHandle == Handle("directory", <<>>, BaseDir)
NoAnswer == [null |-> FALSE, segs |-> <<>>]

\* D and the candidate c, with
\*   names   the lookups that led from D to c, when linked
\*   up      the path of the handle c was looked up on
\*   odd     a lookup behind D or c had a name that is not a plain segment
NoNav == [d |-> RootHandle, c |-> RootHandle, names |-> <<>>, linked |-> TRUE,
          up |-> <<>>, odd |-> FALSE, dodd |-> FALSE,
          asked |-> FALSE, out |-> NoAnswer]

\* ------------------------------------------- stream calls not awaited
MaxOps == 2   \* calls made on the stream
Slots == 1..MaxOps
QueueData == {<<1>>}
QueueSizes == {0}

\* a call on the stream: the method, its argument, the await it stands at,
\* its outcome, the cursor value it read, and
\*   acted    it has read the cursor or called the descriptor
\*   live     its host call reached the open descriptor
\*   closing  it has called close() on the descriptor
\*   late     close() had been invoked on the stream when it was invoked
NoOp == [op |-> "none", data |-> <<>>, size |-> 0, pc |-> "idle",
         res |-> "none", pos |-> 0, acted |-> FALSE, live |-> FALSE,
         closing |-> FALSE, late |-> FALSE]

\* ------------------------------------------------------- entry identity
MaxIno == 3   \* inode numbers of the device
Dev == 1      \* the device the root directory lies on
NoStat == [err |-> "none", ino |-> 0, dev |-> 0]
\* the paths handles are held for and entries are made at
SamePaths == {<<"a">>, <<"b">>, <<"a", "c">>}
Handles == {Handle(k, p[Len(p)], p) : k \in {"file", "directory"}, p \in SamePaths}
\* a.isSameEntry(b): the stats its two fs.stat calls reported so far, and
\*   quiet   no other actor changed the tree since the call began
NoSame == [a |-> NoHandle, b |-> NoHandle, pc |-> "idle",
           s1 |-> NoStat, s2 |-> NoStat, out |-> FALSE, quiet |-> TRUE]

\* --------------------------------------------------------- getFile
MaxTime == 2   \* modifications of the file by other actors
\* getFile(): what readFile and stat gave it, with
\*   versions   the file's content at each modification time so far
NoSnap == [pc |-> "idle", res |-> "none", buffer |-> <<>>,
           lastModified |-> Undefined, versions |-> <<<<>>>>]

\* --------------------------------------------------------- iteration
Iterators == {1, 2}
Special == [kind |-> "other", content |-> <<>>]
NoItem == [key |-> "", handle |-> NoHandle]
\* an async generator of the root Directory Handle:
\*   via      the method that returned it
\*   op       the generator function that runs
\*   listing  the entries array, once readdir has returned
\*   pos      the index of the entry the loop is at
\*   given    the names it yielded so far
\*   out      the item it yielded last
NoIter == [via |-> "none", op |-> "none", pc |-> "idle", listing |-> <<>>,
           pos |-> 0, given |-> {}, out |-> NoItem]

Init ==
  /\ nav = NoNav
  /\ iter = [i \in Iterators |-> NoIter]
  /\ ops = [i \in Slots |-> NoOp]
  /\ mtime = 0
  /\ snap = NoSnap
  /\ inode = [p \in Paths |-> 0]
  /\ same = NoSame
  /\ tree = [p \in Paths |-> Absent]
  /\ held = {}
  /\ call = NoCall
  /\ exists = FALSE
  /\ content = <<>>
  /\ handle = FALSE
  /\ stream = NoStream
  /\ sah = NoSah
  /\ last = [op |-> "none", res |-> "ok", arg |-> NoArg, out |-> <<>>,
             n |-> 0, fs |-> 0, prev |-> "none"]
  /\ hist = NoHist

\* ------------------------------------------------------ Directory Handle
\* getFileHandle(name, {create}) for the file's name
getFileHandle(create) ==
  /\ IF exists
       THEN /\ handle' = TRUE
            /\ last' = Call("getFileHandle", "ok", NoArg, <<>>, 0, 1)
            /\ UNCHANGED <<exists, content, hist>>
       ELSE IF create
         THEN /\ exists' = TRUE
              /\ content' = <<>>
              /\ handle' = TRUE
              /\ hist' = Disturbed
              /\ last' = Call("getFileHandle", "ok", NoArg, <<>>, 0, 2)
         ELSE /\ last' = Call("getFileHandle", "NotFoundError", NoArg, <<>>, 0, 1)
              /\ UNCHANGED <<exists, content, handle, hist>>
  /\ UNCHANGED <<stream, sah>>
  /\ UNCHANGED <<dirVars, restVars>>

\* removeEntry(name) for the file's name
removeEntry ==
  /\ stream.fd # "open"
  /\ sah.fd # "open"
  /\ IF exists
       THEN /\ exists' = FALSE
            /\ content' = <<>>
            /\ hist' = Disturbed
            /\ last' = Call("removeEntry", "ok", NoArg, <<>>, 0, 2)
       ELSE /\ last' = Call("removeEntry", "NotFoundError", NoArg, <<>>, 0, 1)
            /\ UNCHANGED <<exists, content, hist>>
  /\ UNCHANGED <<handle, stream, sah>>
  /\ UNCHANGED <<dirVars, restVars>>

\* ----------------------------------------------------------- File Handle
getFile ==
  /\ handle
  /\ last' = IF exists THEN Call("getFile", "ok", NoArg, content, 0, 2)
                       ELSE Call("getFile", "ENOENT", NoArg, <<>>, 0, 1)
  /\ UNCHANGED <<exists, content, handle, stream, sah, hist>>
  /\ UNCHANGED <<dirVars, restVars>>

\* mutant: createWritable empties the file whatever the option says
Truncates_always(keepExistingData) == TRUE

\* if (!keepExistingData): createWritable empties the file itself
Truncates(keepExistingData) == ~keepExistingData

createWritable(keepExistingData) ==
  /\ handle
  /\ stream.init \in {"none", "failed"} \/ stream.closed
  /\ hist' = [NoHist EXCEPT !.prior = (content # <<>>)]
  /\ IF Truncates(keepExistingData)
       THEN exists' = TRUE /\ content' = <<>>
       ELSE UNCHANGED <<exists, content>>
  /\ stream' = [NoStream EXCEPT !.init = "pending",
                                !.keepExistingData = keepExistingData]
  /\ last' = Call("createWritable", "ok", NoArg, <<>>, 0,
                   IF Truncates(keepExistingData) THEN 1 ELSE 0)
  /\ UNCHANGED <<handle, sah>>
  /\ UNCHANGED <<dirVars, restVars>>

\* ------------------------------------------------------- Writable Stream
\* the deferred open started by the constructor completes
Stream_init ==
  /\ stream.init = "pending"
  /\ IF ~stream.keepExistingData
       THEN \* mode 'w': create or truncate
            /\ exists' = TRUE
            /\ content' = <<>>
            /\ stream' = [stream EXCEPT !.init = "opened", !.fd = "open"]
            /\ last' = Call("_init", "ok", NoArg, <<>>, 0, 1)
       ELSE \* mode 'r+': the entry must exist
            /\ UNCHANGED <<exists, content>>
            /\ IF exists
                 THEN /\ stream' = [stream EXCEPT !.init = "opened", !.fd = "open"]
                      /\ last' = Call("_init", "ok", NoArg, <<>>, 0, 1)
                 ELSE /\ stream' = [stream EXCEPT !.init = "failed"]
                      /\ last' = Call("_init", "ENOENT", NoArg, <<>>, 0, 1)
  /\ UNCHANGED <<handle, sah, hist>>
  /\ UNCHANGED <<dirVars, restVars>>

\* mutant: the failure of the deferred open is not rethrown
EnsureOpen_forgetful ==
  IF stream.closed \/ stream.fd = "null" THEN "Stream is closed" ELSE "ok"

\* _ensureOpen(): the outcome of awaiting the deferred open and the check
EnsureOpen ==
  IF stream.init = "failed" THEN "ENOENT"
  ELSE IF stream.closed \/ stream.fd = "null" THEN "Stream is closed"
  ELSE "ok"

\* mutant: the conversion loses the last byte
BufferFrom_dropLast(arg) == SubSeq(arg.data, 1, Len(arg.data) - 1)

\* Buffer.from(data) for the data kinds write() accepts: the bytes of a
\* buffer, the encoding of a string; any other kind is refused
Convertible(arg) == arg.kind = "bytes"
BufferFrom(arg) == arg.data

\* mutants: the option is never read
SeekPosition_zero(arg) == 0
TruncateSize_zero(arg) == 0

\* params.position ?? 0 and params.size ?? 0
SeekPosition(arg) == IF arg.position # Undefined THEN arg.position ELSE 0
TruncateSize(arg) == IF arg.size # Undefined THEN arg.size ELSE 0

\* history after a successful position-omitted write of buffer
Appended(data) ==
  IF hist.pure
    THEN [hist EXCEPT !.nwrites = Min(@ + 1, Many),
                      !.written = IF hist.alone /\ ~stream.keepExistingData
                                    THEN @ \o data ELSE @]
    ELSE hist
\* history after any other successful operation of the stream
Impure == [hist EXCEPT !.pure = FALSE, !.written = <<>>, !.nwrites = 0]

\* mutant: the cursor is not advanced after a position-omitted write
WriteBuffer_noAdvance(arg, buffer, position) ==
  LET writePosition == IF position # Undefined THEN position
                                               ELSE stream.position
  IN /\ writePosition + Len(buffer) <= MaxLen
     /\ content' = FsWrite(content, buffer, writePosition)
     /\ stream' = stream
     /\ hist' = IF position = Undefined THEN Appended(arg.data) ELSE Impure
     /\ last' = Call("write", "ok", arg, <<>>, 0, 1)

\* mutant: the cursor follows a write at an explicit position too
WriteBuffer_alwaysAdvance(arg, buffer, position) ==
  LET writePosition == IF position # Undefined THEN position
                                               ELSE stream.position
  IN /\ writePosition + Len(buffer) <= MaxLen
     /\ content' = FsWrite(content, buffer, writePosition)
     /\ stream' = [stream EXCEPT !.position = writePosition + Len(buffer)]
     /\ hist' = IF position = Undefined THEN Appended(arg.data) ELSE Impure
     /\ last' = Call("write", "ok", arg, <<>>, 0, 1)

\* mutant: a position-omitted write goes to the end of the file
WriteBuffer_appends(arg, buffer, position) ==
  LET writePosition == IF position # Undefined THEN position
                                               ELSE Len(content)
  IN /\ writePosition + Len(buffer) <= MaxLen
     /\ content' = FsWrite(content, buffer, writePosition)
     /\ stream' = IF position = Undefined
                    THEN [stream EXCEPT !.position = @ + Len(buffer)]
                    ELSE stream
     /\ hist' = IF position = Undefined THEN Appended(arg.data) ELSE Impure
     /\ last' = Call("write", "ok", arg, <<>>, 0, 1)

\* the final positional write of write(): lines 79-84
WriteBuffer(arg, buffer, position) ==
  LET writePosition == IF position # Undefined THEN position
                                               ELSE stream.position
  IN /\ writePosition + Len(buffer) <= MaxLen
     /\ content' = FsWrite(content, buffer, writePosition)
     /\ stream' = IF position = Undefined
                    THEN [stream EXCEPT !.position = @ + Len(buffer)]
                    ELSE stream
     /\ hist' = IF position = Undefined THEN Appended(arg.data) ELSE Impure
     /\ last' = Call("write", "ok", arg, <<>>, 0, 1)

Rejected(op, res, arg) ==
  /\ last' = Call(op, res, arg, <<>>, 0, 0)
  /\ UNCHANGED <<content, stream, hist>>

\* mutant: a tag that is not known is taken as seek
Tag_lenient(arg) == IF arg.type = "other" THEN "seek" ELSE arg.type

\* params.type, by which write() dispatches: lines 50-70
Tag(arg) == arg.type

Writable_write(arg) ==
  /\ stream.init \in {"opened", "failed"}
  /\ IF EnsureOpen # "ok" THEN Rejected("write", EnsureOpen, arg)
     ELSE CASE Tag(arg) = "write" ->
                 IF Convertible(arg)
                   THEN WriteBuffer(arg, BufferFrom(arg), arg.position)
                   ELSE Rejected("write", "Unsupported data type", arg)
            [] Tag(arg) = "seek" ->
                 /\ stream' = [stream EXCEPT !.position = SeekPosition(arg)]
                 /\ hist' = Impure
                 /\ last' = Call("write", "ok", arg, <<>>, 0, 0)
                 /\ UNCHANGED content
            [] Tag(arg) = "truncate" ->
                 /\ content' = FsTruncate(content, TruncateSize(arg))
                 /\ hist' = Impure
                 /\ last' = Call("write", "ok", arg, <<>>, 0, 1)
                 /\ UNCHANGED stream
            [] Tag(arg) = "other" ->
                 Rejected("write", "Unsupported write type", arg)
            [] Tag(arg) = "raw" ->
                 IF Convertible(arg)
                   THEN WriteBuffer(arg, BufferFrom(arg), Undefined)
                   ELSE Rejected("write", "Unsupported data type", arg)
  /\ UNCHANGED <<exists, handle, sah>>
  /\ UNCHANGED <<dirVars, restVars>>

Writable_seek(position) ==
  /\ stream.init # "none"
  /\ stream' = [stream EXCEPT !.position = position]
  /\ hist' = Impure
  /\ last' = Call("seek", "ok", [NoArg EXCEPT !.position = position], <<>>, 0, 0)
  /\ UNCHANGED <<exists, content, handle, sah>>
  /\ UNCHANGED <<dirVars, restVars>>

Writable_truncate(size) ==
  /\ stream.init \in {"opened", "failed"}
  /\ LET arg == [NoArg EXCEPT !.size = size]
     IN IF EnsureOpen # "ok" THEN Rejected("truncate", EnsureOpen, arg)
        ELSE /\ content' = FsTruncate(content, size)
             /\ hist' = Impure
             /\ last' = Call("truncate", "ok", arg, <<>>, 0, 1)
             /\ UNCHANGED stream
  /\ UNCHANGED <<exists, handle, sah>>
  /\ UNCHANGED <<dirVars, restVars>>

Writable_close ==
  /\ stream.init \in {"opened", "failed"}
  /\ IF stream.closed
       THEN /\ last' = Call("close", "ok", NoArg, <<>>, 0, 0)
            /\ UNCHANGED <<stream, hist>>
       ELSE IF stream.init = "failed"
         THEN \* awaiting the deferred open rethrows its failure
              /\ last' = Call("close", "ENOENT", NoArg, <<>>, 0, 0)
              /\ UNCHANGED <<stream, hist>>
         ELSE IF stream.fd # "null"
           THEN /\ stream' = [stream EXCEPT !.fd = "null", !.closed = TRUE]
                /\ hist' = [hist EXCEPT !.syncs = Min(@ + 1, Many),
                                        !.closes = Min(@ + 1, Many)]
                /\ last' = Call("close", "ok", NoArg, <<>>, 0, 2)
           ELSE /\ stream' = [stream EXCEPT !.closed = TRUE]
                /\ last' = Call("close", "ok", NoArg, <<>>, 0, 0)
                /\ UNCHANGED hist
  /\ UNCHANGED <<exists, content, handle, sah>>
  /\ UNCHANGED <<dirVars, restVars>>

\* ---------------------------------------------------- Sync Access Handle
createSyncAccessHandle ==
  /\ handle
  /\ sah.fd # "open"
  /\ IF exists
       THEN /\ sah' = [NoSah EXCEPT !.fd = "open"]
            /\ last' = Call("createSyncAccessHandle", "ok", NoArg, <<>>, 0, 1)
       ELSE /\ last' = Call("createSyncAccessHandle", "ENOENT", NoArg, <<>>, 0, 1)
            /\ UNCHANGED sah
  /\ UNCHANGED <<exists, content, handle, stream, hist>>
  /\ UNCHANGED <<dirVars, restVars>>

SahRejected(op, arg) ==
  /\ last' = Call(op, "Access handle is closed", arg, <<>>, 0, 0)
  /\ UNCHANGED <<content, sah, hist>>

\* mutant: a read at an explicit offset leaves the descriptor's offset behind it
SyncAccess_read_seeks(len, at) ==
  /\ sah.fd # "null"
  /\ LET arg == [NoArg EXCEPT !.position = at, !.size = len]
         position == IF at # Undefined THEN at ELSE sah.offset
         bytesRead == FsRead(content, len, position)
     IN IF sah.closed THEN SahRejected("sah.read", arg)
        ELSE /\ sah' = IF at = Undefined
                         THEN [sah EXCEPT !.offset = @ + Len(bytesRead),
                                          !.moved = Min(@ + Len(bytesRead), MaxLen + 1)]
                         ELSE [sah EXCEPT !.offset = position + Len(bytesRead)]
             /\ last' = Call("sah.read", "ok", arg, bytesRead, Len(bytesRead), 1)
             /\ UNCHANGED <<content, hist>>
  /\ UNCHANGED <<exists, handle, stream>>
  /\ UNCHANGED <<dirVars, restVars>>

\* mutant: options.at is not passed on, every read starts at the offset
SyncAccess_read_ignoresAt(len, at) ==
  /\ sah.fd # "null"
  /\ LET arg == [NoArg EXCEPT !.position = at, !.size = len]
         bytesRead == FsRead(content, len, sah.offset)
     IN IF sah.closed THEN SahRejected("sah.read", arg)
        ELSE /\ sah' = [sah EXCEPT !.offset = @ + Len(bytesRead),
                                   !.moved = Min(@ + Len(bytesRead), MaxLen + 1)]
             /\ last' = Call("sah.read", "ok", arg, bytesRead, Len(bytesRead), 1)
             /\ UNCHANGED <<content, hist>>
  /\ UNCHANGED <<exists, handle, stream>>
  /\ UNCHANGED <<dirVars, restVars>>

\* read(buffer, {at}) with a buffer of length len
SyncAccess_read(len, at) ==
  /\ sah.fd # "null"
  /\ LET arg == [NoArg EXCEPT !.position = at, !.size = len]
         position == IF at # Undefined THEN at ELSE sah.offset
         bytesRead == FsRead(content, len, position)
     IN IF sah.closed THEN SahRejected("sah.read", arg)
        ELSE /\ sah' = IF at = Undefined
                         THEN [sah EXCEPT !.offset = @ + Len(bytesRead),
                                          !.moved = Min(@ + Len(bytesRead), MaxLen + 1)]
                         ELSE sah
             /\ last' = Call("sah.read", "ok", arg, bytesRead, Len(bytesRead), 1)
             /\ UNCHANGED <<content, hist>>
  /\ UNCHANGED <<exists, handle, stream>>
  /\ UNCHANGED <<dirVars, restVars>>

SyncAccess_write(buffer, at) ==
  /\ sah.fd # "null"
  /\ LET arg == [NoArg EXCEPT !.position = at, !.data = buffer]
         position == IF at # Undefined THEN at ELSE sah.offset
     IN IF sah.closed THEN SahRejected("sah.write", arg)
        ELSE /\ position + Len(buffer) <= MaxLen
             /\ content' = FsWrite(content, buffer, position)
             /\ sah' = IF at = Undefined
                         THEN [sah EXCEPT !.offset = @ + Len(buffer),
                                          !.moved = Min(@ + Len(buffer), MaxLen + 1)]
                         ELSE sah
             /\ hist' = Disturbed
             /\ last' = Call("sah.write", "ok", arg, <<>>, Len(buffer), 1)
  /\ UNCHANGED <<exists, handle, stream>>
  /\ UNCHANGED <<dirVars, restVars>>

\* mutant: truncate() without the closed check reaches the released descriptor
SyncAccess_truncate_unchecked(newSize) ==
  /\ sah.fd # "null"
  /\ LET arg == [NoArg EXCEPT !.size = newSize]
     IN IF sah.closed
          THEN /\ last' = Call("sah.truncate", "EBADF", arg, <<>>, 0, 1)
               /\ UNCHANGED <<content, sah, hist>>
          ELSE /\ content' = FsTruncate(content, newSize)
               /\ hist' = Disturbed
               /\ last' = Call("sah.truncate", "ok", arg, <<>>, 0, 1)
               /\ UNCHANGED sah
  /\ UNCHANGED <<exists, handle, stream>>
  /\ UNCHANGED <<dirVars, restVars>>

\* mutant: truncate() only ever shrinks the file
SyncAccess_truncate_noGrow(newSize) ==
  /\ sah.fd # "null"
  /\ LET arg == [NoArg EXCEPT !.size = newSize]
     IN IF sah.closed THEN SahRejected("sah.truncate", arg)
        ELSE /\ content' = FsTruncate(content, Min(newSize, Len(content)))
             /\ hist' = Disturbed
             /\ last' = Call("sah.truncate", "ok", arg, <<>>, 0, 1)
             /\ UNCHANGED sah
  /\ UNCHANGED <<exists, handle, stream>>
  /\ UNCHANGED <<dirVars, restVars>>

SyncAccess_truncate(newSize) ==
  /\ sah.fd # "null"
  /\ LET arg == [NoArg EXCEPT !.size = newSize]
     IN IF sah.closed THEN SahRejected("sah.truncate", arg)
        ELSE /\ content' = FsTruncate(content, newSize)
             /\ hist' = Disturbed
             /\ last' = Call("sah.truncate", "ok", arg, <<>>, 0, 1)
             /\ UNCHANGED sah
  /\ UNCHANGED <<exists, handle, stream>>
  /\ UNCHANGED <<dirVars, restVars>>

SyncAccess_getSize ==
  /\ sah.fd # "null"
  /\ IF sah.closed THEN SahRejected("sah.getSize", NoArg)
     ELSE /\ last' = Call("sah.getSize", "ok", NoArg, <<>>, Len(content), 1)
          /\ UNCHANGED <<content, sah, hist>>
  /\ UNCHANGED <<exists, handle, stream>>
  /\ UNCHANGED <<dirVars, restVars>>

SyncAccess_flush ==
  /\ sah.fd # "null"
  /\ IF sah.closed THEN SahRejected("sah.flush", NoArg)
     ELSE /\ last' = Call("sah.flush", "ok", NoArg, <<>>, 0, 1)
          /\ UNCHANGED <<content, sah, hist>>
  /\ UNCHANGED <<exists, handle, stream>>
  /\ UNCHANGED <<dirVars, restVars>>

\* mutant: close() without the early return releases the descriptor again
SyncAccess_close_unchecked ==
  /\ sah.fd # "null"
  /\ sah' = [sah EXCEPT !.fd = "closed", !.closed = TRUE,
                        !.released = Min(@ + 1, Many)]
  /\ last' = Call("sah.close", "ok", NoArg, <<>>, 0, 1)
  /\ UNCHANGED <<exists, content, handle, stream, hist>>
  /\ UNCHANGED <<dirVars, restVars>>

SyncAccess_close ==
  /\ sah.fd # "null"
  /\ IF sah.closed
       THEN /\ last' = Call("sah.close", "ok", NoArg, <<>>, 0, 0)
            /\ UNCHANGED sah
       ELSE /\ sah' = [sah EXCEPT !.fd = "closed", !.closed = TRUE,
                                  !.released = Min(@ + 1, Many)]
            /\ last' = Call("sah.close", "ok", NoArg, <<>>, 0, 1)
  /\ UNCHANGED <<exists, content, handle, stream, hist>>
  /\ UNCHANGED <<dirVars, restVars>>

\* ------------------------------- Sync Access Handle, calls not awaited
\* truncate(), getSize() and flush() are async functions: a call checks
\* _closed, hands one request to the host and returns a promise; the host
\* executes the requests in flight in any order.
Request(op, size, after) == [op |-> op, size |-> size, after |-> after]

\* the size given to the truncate() that was called directly before
JustTruncated ==
  IF last.op = "sah.truncate" /\ last.res = "pending" THEN last.arg.size
                                                       ELSE Undefined

Issue(op, req, arg) ==
  /\ sah.fd # "null"
  /\ IF sah.closed THEN SahRejected(op, arg)
     ELSE /\ Len(sah.pending) < MaxPending
          /\ sah' = [sah EXCEPT !.pending = Append(@, req)]
          /\ last' = Call(op, "pending", arg, <<>>, 0, 1)
          /\ UNCHANGED <<content, hist>>
  /\ UNCHANGED <<exists, handle, stream>>
  /\ UNCHANGED <<dirVars, restVars>>

Async_truncate(newSize) ==
  Issue("sah.truncate", Request("truncate", newSize, Undefined),
        [NoArg EXCEPT !.size = newSize])

Async_getSize ==
  Issue("sah.getSize", Request("stat", Undefined, JustTruncated),
        [NoArg EXCEPT !.size = JustTruncated])

Async_flush ==
  Issue("sah.flush", Request("sync", Undefined, Undefined), NoArg)

\* the host executes the i-th request in flight and settles its promise
Host_complete(i) ==
  /\ i \in 1..Len(sah.pending)
  /\ LET req == sah.pending[i]
         arg == [NoArg EXCEPT !.size = IF req.op = "truncate" THEN req.size
                                                              ELSE req.after]
     IN /\ sah' = [sah EXCEPT !.pending =
                      SubSeq(@, 1, i - 1) \o SubSeq(@, i + 1, Len(@))]
        /\ CASE req.op = "truncate" ->
                  /\ content' = FsTruncate(content, req.size)
                  /\ hist' = Disturbed
                  /\ last' = Call("sah.truncate", "ok", arg, <<>>, 0, 0)
             [] req.op = "stat" ->
                  /\ last' = Call("sah.getSize", "ok", arg, <<>>, Len(content), 0)
                  /\ UNCHANGED <<content, hist>>
             [] req.op = "sync" ->
                  /\ last' = Call("sah.flush", "ok", arg, <<>>, 0, 0)
                  /\ UNCHANGED <<content, hist>>
  /\ UNCHANGED <<exists, handle, stream>>
  /\ UNCHANGED <<dirVars, restVars>>

\* ------------------------------------------- Directory Handle, by await
\* host filesystem on the tree: each operator is one host call
ParentOk(t, p) == Len(p) = 1 \/ t[<<p[1]>>].kind = "directory"
ParentError(t, p) ==
  IF t[<<p[1]>>].kind = "file" THEN "ENOTDIR"
  ELSE IF t[<<p[1]>>].kind = "locked" THEN "EACCES" ELSE "ENOENT"
Children(t, p) ==
  IF Len(p) = 1 THEN {m \in SubNames : t[Join(p, m)].kind # "none"} ELSE {}
Below(p) == {q \in Paths : Len(q) > Len(p) /\ SubSeq(q, 1, Len(p)) = p}

\* fs.stat(path): the entry's kind, or the error code
FsStat(t, p) ==
  IF ~ParentOk(t, p) THEN ParentError(t, p)
  ELSE IF t[p].kind = "none" THEN "ENOENT"
  ELSE IF t[p].kind = "locked" THEN "EACCES" ELSE t[p].kind

\* fs.writeFile(path, ''): creates the file or empties it
FsWriteFile(t, p) ==
  IF ~ParentOk(t, p) THEN [err |-> ParentError(t, p), tree |-> t]
  ELSE IF t[p].kind = "locked" THEN [err |-> "EACCES", tree |-> t]
  ELSE IF t[p].kind = "directory" THEN [err |-> "EISDIR", tree |-> t]
  ELSE [err |-> "ok", tree |-> [t EXCEPT ![p] = EmptyFile]]

\* fs.mkdir(path, {recursive: false})
FsMkdir(t, p) ==
  IF ~ParentOk(t, p) THEN [err |-> ParentError(t, p), tree |-> t]
  ELSE IF t[p].kind = "locked" THEN [err |-> "EACCES", tree |-> t]
  ELSE IF t[p].kind # "none" THEN [err |-> "EEXIST", tree |-> t]
  ELSE [err |-> "ok", tree |-> [t EXCEPT ![p] = Directory]]

\* fs.readdir(path): ok or the error code (the names are Children)
FsReaddir(t, p) ==
  IF ~ParentOk(t, p) THEN ParentError(t, p)
  ELSE IF t[p].kind = "none" THEN "ENOENT"
  ELSE IF t[p].kind = "locked" THEN "EACCES"
  ELSE IF t[p].kind = "file" THEN "ENOTDIR" ELSE "ok"

\* fs.rmdir(path)
FsRmdir(t, p) ==
  IF FsReaddir(t, p) # "ok" THEN [err |-> FsReaddir(t, p), tree |-> t]
  ELSE IF Children(t, p) # {} THEN [err |-> "ENOTEMPTY", tree |-> t]
  ELSE [err |-> "ok", tree |-> [t EXCEPT ![p] = Absent]]

\* fs.rm(path, {recursive: true, force: false})
FsRm(t, p) ==
  IF ~ParentOk(t, p) THEN [err |-> ParentError(t, p), tree |-> t]
  ELSE IF t[p].kind = "none" THEN [err |-> "ENOENT", tree |-> t]
  ELSE IF t[p].kind = "locked" THEN [err |-> "EACCES", tree |-> t]
  ELSE [err |-> "ok",
        tree |-> [q \in Paths |-> IF q = p \/ q \in Below(p) THEN Absent ELSE t[q]]]

\* fs.unlink(path)
FsUnlink(t, p) ==
  IF ~ParentOk(t, p) THEN [err |-> ParentError(t, p), tree |-> t]
  ELSE IF t[p].kind = "none" THEN [err |-> "ENOENT", tree |-> t]
  ELSE IF t[p].kind = "locked" THEN [err |-> "EACCES", tree |-> t]
  ELSE IF t[p].kind = "directory" THEN [err |-> "EISDIR", tree |-> t]
  ELSE [err |-> "ok", tree |-> [t EXCEPT ![p] = Absent]]

Target(c) == Join(c.dir, c.name)
Goto(pc) == [pc |-> pc, res |-> "none"]
Done(res) == [pc |-> "done", res |-> res]

\* the call moves on after a host call that found st (kept from the first)
Moved(to, kind) ==
  [call EXCEPT !.pc = to.pc, !.res = to.res, !.from = call.pc,
               !.st = IF call.pc = "stat" THEN FsStat(tree, Target(call)) ELSE @,
               !.kids = IF call.pc = "stat" /\ FsStat(tree, Target(call)) = "directory"
                          THEN Children(tree, Target(call)) ELSE @,
               !.parent = @ /\ ParentOk(tree, Target(call)),
               !.ret = IF to.res = "ok" /\ kind # "none"
                         THEN Handle(kind, call.name, Target(call)) ELSE NoHandle]

\* a caller starts a call on the root handle or on a subdirectory handle
Dir_call(op, dir, name, flag) ==
  /\ call.pc \in {"idle", "done"}
  /\ dir = Root \/ (Len(dir) = 1 /\ dir[1] \in held)
  /\ name \in NamesIn(dir)
  /\ call' = [NoCall EXCEPT !.op = op, !.dir = dir, !.name = name,
                            !.flag = flag, !.pc = "stat"]
  /\ UNCHANGED <<tree, held>>
  /\ UNCHANGED <<fileVars, restVars>>

\* mutant: a missing file is created whatever the create option says
GetFile_afterStat_eager(r, create) ==
  IF r = "file" THEN Done("ok")
  ELSE IF r = "ENOENT" THEN Goto("writeFile")
  ELSE Done("NotFoundError")

\* getFileHandle after its stat: lines 21-34
GetFile_afterStat(r, create) ==
  IF r = "file" THEN Done("ok")
  ELSE IF r = "ENOENT" /\ create THEN Goto("writeFile")
  ELSE Done("NotFoundError")

\* getFileHandle after writeFile: lines 30-31
GetFile_afterWriteFile(err) == Done(err)

Dir_getFileHandle ==
  /\ call.op = "getFileHandle"
  /\ call.pc \in {"stat", "writeFile"}
  /\ IF call.pc = "stat"
       THEN /\ call' = Moved(GetFile_afterStat(FsStat(tree, Target(call)), call.flag), "file")
            /\ UNCHANGED tree
       ELSE LET w == FsWriteFile(tree, Target(call))
            IN /\ tree' = w.tree
               /\ call' = Moved(GetFile_afterWriteFile(w.err), "file")
  /\ UNCHANGED held
  /\ UNCHANGED <<fileVars, restVars>>

\* the error the try block of getDirectoryHandle raises on a stat result
NotADirectory(r) == IF r = "file" THEN "TypeError" ELSE r

\* getDirectoryHandle after its first stat: lines 44-74
GetDir_afterStat(r, create) ==
  IF r = "directory" THEN Done("ok")
  ELSE IF create THEN Goto("mkdir")
  ELSE IF r = "ENOENT" THEN Done("NotFoundError")
  ELSE Done(NotADirectory(r))

\* mutant: a creation conflict is passed on to the caller
GetDir_afterMkdir_strict(err) == Done(err)

\* getDirectoryHandle after mkdir: lines 54-66
GetDir_afterMkdir(err) ==
  IF err = "EEXIST" THEN Goto("restat") ELSE Done(err)

\* mutant: after a creation conflict the entry's kind is not looked at
GetDir_afterRestat_trusting(r) ==
  IF r \in {"file", "directory"} THEN Done("ok") ELSE Done(r)

\* getDirectoryHandle after the stat that follows EEXIST: lines 58-61
GetDir_afterRestat(r) ==
  IF r = "directory" THEN Done("ok") ELSE Done(NotADirectory(r))

Dir_getDirectoryHandle ==
  /\ call.op = "getDirectoryHandle"
  /\ call.pc \in {"stat", "mkdir", "restat"}
  /\ LET p == Target(call)
         next == CASE call.pc = "stat" -> GetDir_afterStat(FsStat(tree, p), call.flag)
                   [] call.pc = "mkdir" -> GetDir_afterMkdir(FsMkdir(tree, p).err)
                   [] call.pc = "restat" -> GetDir_afterRestat(FsStat(tree, p))
     IN /\ tree' = IF call.pc = "mkdir" THEN FsMkdir(tree, p).tree ELSE tree
        /\ call' = Moved(next, "directory")
        /\ held' = IF next.res = "ok" /\ call.dir = Root
                     THEN held \cup {call.name} ELSE held
  /\ UNCHANGED <<fileVars, restVars>>

\* mutant: the host's error code is passed on as it is
RemoveError_raw(err) == err

\* the catch block of removeEntry: lines 104-109
RemoveError(err) == IF err = "ENOENT" THEN "NotFoundError" ELSE err

\* mutant: the recursive option is not read
Remove_afterStat_neverRecursive(r, recursive) ==
  IF r = "directory" THEN Goto("readdir")
  ELSE IF r = "file" THEN Goto("unlink")
  ELSE Done(RemoveError(r))

\* removeEntry after its stat: lines 85-103
Remove_afterStat(r, recursive) ==
  IF r = "directory" THEN (IF recursive THEN Goto("rm") ELSE Goto("readdir"))
  ELSE IF r = "file" THEN Goto("unlink")
  ELSE Done(RemoveError(r))

\* mutant: the listing is not looked at before rmdir
Remove_afterReaddir_unchecked(err, entries) ==
  IF err # "ok" THEN Done(RemoveError(err)) ELSE Goto("rmdir")

\* mutant: an empty listing is followed by a recursive removal
Remove_afterReaddir_force(err, entries) ==
  IF err # "ok" THEN Done(RemoveError(err))
  ELSE IF entries # {} THEN Done("InvalidModificationError")
  ELSE Goto("rm")

\* removeEntry after readdir: lines 92-99
Remove_afterReaddir(err, entries) ==
  IF err # "ok" THEN Done(RemoveError(err))
  ELSE IF entries # {} THEN Done("InvalidModificationError")
  ELSE Goto("rmdir")

\* removeEntry after rm, rmdir or unlink
Remove_afterRemoval(err) == Done(RemoveError(err))

Dir_removeEntry ==
  /\ call.op = "removeEntry"
  /\ call.pc \in {"stat", "readdir", "rm", "rmdir", "unlink"}
  /\ LET p == Target(call)
         host == CASE call.pc = "rm" -> FsRm(tree, p)
                   [] call.pc = "rmdir" -> FsRmdir(tree, p)
                   [] call.pc = "unlink" -> FsUnlink(tree, p)
                   [] OTHER -> [err |-> "ok", tree |-> tree]
         next == CASE call.pc = "stat" -> Remove_afterStat(FsStat(tree, p), call.flag)
                   [] call.pc = "readdir" ->
                        Remove_afterReaddir(FsReaddir(tree, p), Children(tree, p))
                   [] OTHER -> Remove_afterRemoval(host.err)
     IN /\ tree' = host.tree
        /\ call' = Moved(next, "none")
  /\ UNCHANGED held
  /\ UNCHANGED <<fileVars, restVars>>

\* another actor: what it did is noted in the call that began before it
Noted(what) ==
  IF call.pc = "idle" THEN call ELSE [call EXCEPT !.others = @ \cup {what}]

\* another actor creates the file at p, or writes bytes into it
Other_writeFile(p) ==
  /\ ParentOk(tree, p)
  /\ tree[p].kind # "directory"
  /\ tree[p] # WrittenFile
  /\ tree' = [tree EXCEPT ![p] = WrittenFile]
  /\ call' = Noted("writeFile")
  /\ UNCHANGED held
  /\ UNCHANGED <<fileVars, restVars>>

\* another actor creates the directory p
Other_mkdir(p) ==
  /\ FsMkdir(tree, p).err = "ok"
  /\ tree' = FsMkdir(tree, p).tree
  /\ call' = Noted("mkdir")
  /\ UNCHANGED held
  /\ UNCHANGED <<fileVars, restVars>>

\* another actor takes away the permission to reach the entry p
Other_deny(p) ==
  /\ ParentOk(tree, p)
  /\ tree[p].kind \in {"file", "directory"}
  /\ Children(tree, p) = {}
  /\ tree' = [tree EXCEPT ![p] = Locked]
  /\ call' = Noted("deny")
  /\ UNCHANGED held
  /\ UNCHANGED <<fileVars, restVars>>

\* another actor removes the entry p and everything below it
Other_remove(p) ==
  /\ FsRm(tree, p).err = "ok"
  /\ tree' = FsRm(tree, p).tree
  /\ call' = Noted("remove")
  /\ UNCHANGED held
  /\ UNCHANGED <<fileVars, restVars>>

\* the file and its Writable Stream
Next ==
  \/ \E create \in BOOLEAN : getFileHandle(create)
  \/ removeEntry
  \/ getFile
  \/ \E keep \in BOOLEAN : createWritable(keep)
  \/ Stream_init
  \/ \E arg \in Args : Writable_write(arg)
  \/ \E position \in Pos : Writable_seek(position)
  \/ \E size \in Pos : Writable_truncate(size)
  \/ Writable_close

Spec == Init /\ [][Next]_vars

\* the file and its Sync Access Handle
NextSync ==
  \/ \E create \in BOOLEAN : getFileHandle(create)
  \/ removeEntry
  \/ getFile
  \/ createSyncAccessHandle
  \/ \E len \in 0..MaxData, at \in OptPos : SyncAccess_read(len, at)
  \/ \E buffer \in Data, at \in OptPos : SyncAccess_write(buffer, at)
  \/ \E newSize \in Pos : SyncAccess_truncate(newSize)
  \/ SyncAccess_getSize
  \/ SyncAccess_flush
  \/ SyncAccess_close

SpecSync == Init /\ [][NextSync]_vars

\* the file and its Sync Access Handle, truncate/getSize/flush not awaited
NextAsync ==
  \/ \E create \in BOOLEAN : getFileHandle(create)
  \/ createSyncAccessHandle
  \/ \E len \in 0..MaxData, at \in OptPos : SyncAccess_read(len, at)
  \/ \E buffer \in Data, at \in OptPos : SyncAccess_write(buffer, at)
  \/ \E newSize \in Pos : Async_truncate(newSize)
  \/ Async_getSize
  \/ Async_flush
  \/ \E i \in 1..MaxPending : Host_complete(i)

SpecAsync == Init /\ [][NextAsync]_vars

\* Directory Handle calls, one host call at a time, among other actors
NextDir ==
  \/ \E op \in {"getFileHandle", "getDirectoryHandle", "removeEntry"},
        dir \in DirPaths, name \in TopNames \cup SubNames, flag \in BOOLEAN :
          Dir_call(op, dir, name, flag)
  \/ Dir_getFileHandle
  \/ Dir_getDirectoryHandle
  \/ Dir_removeEntry
  \/ \E p \in Paths : Other_writeFile(p)
  \/ \E p \in Paths : Other_mkdir(p)
  \/ \E p \in Paths : Other_remove(p)

SpecDir == Init /\ [][NextDir]_vars

\* -------------------------------------------------- path text operations
\* String.prototype.startsWith
StartsWith(s, t) == Len(t) <= Len(s) /\ SubSeq(s, 1, Len(t)) = t

RECURSIVE Split(_)
\* mutant: the text is returned as one piece
Split_whole(s) == <<s>>

\* String.prototype.split(path.sep)
Split(s) ==
  IF \A i \in 1..Len(s) : s[i] # Sep THEN <<s>>
  ELSE LET i == CHOOSE j \in 1..Len(s) :
                  s[j] = Sep /\ \A k \in 1..(j - 1) : s[k] # Sep
       IN <<SubSeq(s, 1, i - 1)>> \o Split(SubSeq(s, i + 1, Len(s)))

RECURSIVE JoinSegs(_)
\* the segments with a separator between them
JoinSegs(segs) ==
  IF segs = <<>> THEN <<>>
  ELSE IF Len(segs) = 1 THEN segs[1]
  ELSE segs[1] \o <<Sep>> \o JoinSegs(Tail(segs))

RECURSIVE NormSegs(_, _)
\* normalizeString of an absolute path: "" and "." are dropped, ".." takes
\* the segment before it away (and is dropped at the top)
NormSegs(segs, acc) ==
  IF segs = <<>> THEN acc
  ELSE LET x == Head(segs)
       IN IF x = <<>> \/ x = <<".">> THEN NormSegs(Tail(segs), acc)
          ELSE IF x = <<".", ".">>
            THEN NormSegs(Tail(segs),
                          IF acc = <<>> THEN acc ELSE SubSeq(acc, 1, Len(acc) - 1))
          ELSE NormSegs(Tail(segs), Append(acc, x))

Segs(text) == NormSegs(Split(text), <<>>)

\* path.normalize of an absolute path: a trailing separator is kept
Normalize(text) ==
  LET body == JoinSegs(Segs(text))
  IN <<Sep>> \o body \o
       (IF body # <<>> /\ text[Len(text)] = Sep THEN <<Sep>> ELSE <<>>)

\* path.join(dir, name): empty arguments are skipped
PathJoin(dir, name) ==
  IF name = <<>> THEN Normalize(dir) ELSE Normalize(dir \o <<Sep>> \o name)

\* path.relative(from, to) of two absolute paths
PathRelative(from, to) ==
  LET f == Segs(from)
      t == Segs(to)
      shared == {k \in 0..Len(f) : k <= Len(t) /\ SubSeq(f, 1, k) = SubSeq(t, 1, k)}
      k == CHOOSE m \in shared : \A n \in shared : n <= m
  IN JoinSegs([i \in 1..(Len(f) - k) |-> <<".", ".">>] \o SubSeq(t, k + 1, Len(t)))

\* what resolve returns: null, or an array of segments
Null == [null |-> TRUE, segs |-> <<>>]
Segments(segs) == [null |-> FALSE, segs |-> segs]

\* resolve(possibleDescendant): lines 115-128
Resolve(d, c) ==
  LET rel == PathRelative(d.path, c.path)
  IN IF ~StartsWith(c.path, d.path) THEN Null
     ELSE IF rel = <<>> THEN Segments(<<>>)
     ELSE Segments(Split(rel))

\* segs lies at or below the directory whose segments are dir
Within(segs, dir) == Len(dir) <= Len(segs) /\ SubSeq(segs, 1, Len(dir)) = dir

\* the host can hold an entry of this kind at path, next to the directories
\* the handles in use stand for
CanBe(kind, path) ==
  kind = "file" =>
    /\ path[Len(path)] # Sep
    /\ ~Within(Segs(BaseDir), Segs(path))
    /\ ~Within(Segs(nav.c.path), Segs(path))
    /\ ~Within(Segs(nav.d.path), Segs(path))

MaxDepth == 2   \* most lookups in a row from a handle

\* a lookup of name on the Directory Handle c that the host lets succeed:
\* getFileHandle lines 18 and 26, getDirectoryHandle lines 41 and 49
Nav_lookup(kind, name) ==
  /\ nav.c.kind = "directory"
  /\ Len(nav.names) < MaxDepth
  /\ CanBe(kind, PathJoin(nav.c.path, name))
  /\ nav' = [nav EXCEPT !.c = Handle(kind, name, PathJoin(nav.c.path, name)),
                         !.names = Append(@, name),
                         !.up = nav.c.path,
                         !.odd = @ \/ name \in OddNames,
                         !.asked = FALSE, !.out = NoAnswer]
  /\ UNCHANGED <<fileVars, dirVars, inode, same, mtime, snap, iter, ops>>

\* the caller goes on with c in the place of D
Nav_rebase ==
  /\ nav.c.kind = "directory"
  /\ nav.d = RootHandle /\ nav.c # RootHandle
  /\ nav' = [nav EXCEPT !.d = nav.c, !.names = <<>>, !.linked = TRUE,
                         !.dodd = nav.odd,
                         !.asked = FALSE, !.out = NoAnswer]
  /\ UNCHANGED <<fileVars, dirVars, inode, same, mtime, snap, iter, ops>>

\* the caller takes the root handle as the candidate: part_002 lines 20-25
Nav_getDirectory ==
  /\ nav.c # RootHandle
  /\ nav' = [nav EXCEPT !.c = RootHandle, !.names = <<>>, !.up = <<>>,
                         !.linked = (nav.d = RootHandle), !.odd = nav.dodd,
                         !.asked = FALSE, !.out = NoAnswer]
  /\ UNCHANGED <<fileVars, dirVars, inode, same, mtime, snap, iter, ops>>

\* D.resolve(c)
Nav_resolve ==
  /\ ~nav.asked
  /\ nav' = [nav EXCEPT !.asked = TRUE, !.out = Resolve(nav.d, nav.c)]
  /\ UNCHANGED <<fileVars, dirVars, inode, same, mtime, snap, iter, ops>>

\* ---------------------------------------------------------- isSameEntry
\* fs.stat(path) with the identity of the entry
FsStatIdentity(t, ino, p) ==
  IF FsStat(t, p) \in {"file", "directory"}
    THEN [err |-> "ok", ino |-> ino[p], dev |-> Dev]
    ELSE [err |-> FsStat(t, p), ino |-> 0, dev |-> 0]

\* mutant: the kinds of the two handles are not compared
SameKind_unchecked(a, b) == TRUE

\* this.kind !== other.kind: FileSystemHandle.ts line 28
SameKind(a, b) == a.kind = b.kind

\* line 39
SameIdentity(s1, s2) == s1.ino = s2.ino /\ s1.dev = s2.dev

\* a caller starts a.isSameEntry(b): lines 27-36
Same_call(a, b) ==
  /\ same.pc \in {"idle", "done"}
  /\ same' = IF SameKind(a, b)
               THEN [NoSame EXCEPT !.a = a, !.b = b, !.pc = "stats"]
               ELSE [NoSame EXCEPT !.a = a, !.b = b, !.pc = "done"]
  /\ UNCHANGED <<tree, held, call, nav, inode, mtime, snap, iter, ops>>
  /\ UNCHANGED fileVars

\* Promise.all after one more stat: rejected by the first failure (the catch
\* returns false), fulfilled when both stats are in: lines 33-42
Settled(c) ==
  IF c.s1.err \notin {"none", "ok"} \/ c.s2.err \notin {"none", "ok"}
    THEN [c EXCEPT !.pc = "done", !.out = FALSE]
  ELSE IF c.s1.err = "ok" /\ c.s2.err = "ok"
    THEN [c EXCEPT !.pc = "done", !.out = SameIdentity(c.s1, c.s2)]
  ELSE c

\* the host executes one of the two stats: lines 34-35
Same_stat(i) ==
  /\ same.pc = "stats"
  /\ IF i = 1
       THEN /\ same.s1 = NoStat
            /\ same' = Settled([same EXCEPT !.s1 = FsStatIdentity(tree, inode, same.a.path)])
       ELSE /\ same.s2 = NoStat
            /\ same' = Settled([same EXCEPT !.s2 = FsStatIdentity(tree, inode, same.b.path)])
  /\ UNCHANGED <<tree, held, call, nav, inode, mtime, snap, iter, ops>>
  /\ UNCHANGED fileVars

Disturb == IF same.pc = "idle" THEN same ELSE [same EXCEPT !.quiet = FALSE]

\* an actor creates an entry: the host gives it an inode number not in use
Host_create(p, kind, n) ==
  /\ tree[p].kind = "none"
  /\ \A q \in Paths : inode[q] # n
  /\ LET made == IF kind = "file" THEN FsWriteFile(tree, p) ELSE FsMkdir(tree, p)
     IN /\ made.err = "ok"
        /\ tree' = made.tree
  /\ inode' = [inode EXCEPT ![p] = n]
  /\ same' = Disturb
  /\ UNCHANGED <<held, call, nav, mtime, snap, iter, ops>>
  /\ UNCHANGED fileVars

\* an actor removes an entry and everything beneath it
Host_remove(p) ==
  /\ FsRm(tree, p).err = "ok"
  /\ tree' = FsRm(tree, p).tree
  /\ inode' = [q \in Paths |-> IF q = p \/ q \in Below(p) THEN 0 ELSE inode[q]]
  /\ same' = Disturb
  /\ UNCHANGED <<held, call, nav, mtime, snap, iter, ops>>
  /\ UNCHANGED fileVars

\* isSameEntry on handles of the tree's paths, among other actors
NextSame ==
  \/ \E a \in Handles, b \in Handles : Same_call(a, b)
  \/ \E i \in 1..2 : Same_stat(i)
  \/ \E p \in SamePaths, kind \in {"file", "directory"}, n \in 1..MaxIno :
        Host_create(p, kind, n)
  \/ \E p \in SamePaths : Host_remove(p)

SpecSame == Init /\ [][NextSame]_vars

\* -------------------------------------------------- getFile, by await
\* a caller starts getFile() on the File Handle: part_000 line 161
Snap_call ==
  /\ handle
  /\ snap.pc \in {"idle", "done"}
  /\ snap' = [NoSnap EXCEPT !.pc = "readFile", !.versions = snap.versions]
  /\ UNCHANGED <<fileVars, dirVars, nav, inode, same, mtime, iter, ops>>

\* buffer = await fs.readFile(this._path): line 162
Snap_readFile ==
  /\ snap.pc = "readFile"
  /\ snap' = IF exists
               THEN [snap EXCEPT !.pc = "stat", !.buffer = content]
               ELSE [snap EXCEPT !.pc = "done", !.res = "ENOENT"]
  /\ UNCHANGED <<fileVars, dirVars, nav, inode, same, mtime, iter, ops>>

\* stats = await fs.stat(this._path), and the File built of both: 163-171
Snap_stat ==
  /\ snap.pc = "stat"
  /\ snap' = IF exists
               THEN [snap EXCEPT !.pc = "done", !.res = "ok", !.lastModified = mtime]
               ELSE [snap EXCEPT !.pc = "done", !.res = "ENOENT", !.buffer = <<>>]
  /\ UNCHANGED <<fileVars, dirVars, nav, inode, same, mtime, iter, ops>>

\* the host made a modification: the time moves on
Modified(c) ==
  /\ mtime' = mtime + 1
  /\ snap' = [snap EXCEPT !.versions = Append(@, c)]

\* another actor replaces the file's content
Other_write(data) ==
  /\ exists
  /\ mtime < MaxTime
  /\ content' = data
  /\ Modified(data)
  /\ UNCHANGED <<exists, handle, stream, sah, last, hist>>
  /\ UNCHANGED <<dirVars, nav, inode, same, iter, ops>>

\* another actor removes the file
Other_unlink ==
  /\ exists
  /\ mtime < MaxTime
  /\ exists' = FALSE
  /\ content' = <<>>
  /\ Modified(<<>>)
  /\ UNCHANGED <<handle, stream, sah, last, hist>>
  /\ UNCHANGED <<dirVars, nav, inode, same, iter, ops>>

\* getFile on the file, among other actors
NextSnap ==
  \/ \E create \in BOOLEAN : getFileHandle(create)
  \/ Snap_call
  \/ Snap_readFile
  \/ Snap_stat
  \/ \E data \in Data : Other_write(data)
  \/ Other_unlink

SpecSnap == Init /\ [][NextSnap]_vars

\* ------------------------------------------- keys, values, entries
\* the names fs.readdir finds in the directory p
Entries(t, p) == {n \in NamesIn(p) : t[Join(p, n)].kind # "none"}

\* fs.readdir(p, {withFileTypes: true}): the entries in any order
Listings(t, p) ==
  LET names == Entries(t, p)
      k == Cardinality(names)
  IN {[i \in 1..k |-> [name |-> f[i], kind |-> t[Join(p, f[i])].kind]] :
        f \in {g \in [1..k -> names] : \A n \in names : \E i \in 1..k : g[i] = n}}

\* fs.readdir(p) without file types: the names only
Untyped(l) == [i \in 1..Len(l) |-> [name |-> l[i].name, kind |-> "untyped"]]

\* the listing a generator function asks for: lines 134, 144, 161
Readdir(op, t, p) ==
  IF op = "keys" THEN {Untyped(l) : l \in Listings(t, p)} ELSE Listings(t, p)

\* [Symbol.asyncIterator]() returns this.entries(): lines 177-179
GeneratorOf(via) == IF via = "asyncIterator" THEN "entries" ELSE via

\* mutant: a handle is made for an entry of any type
Yields_any(op, e) == TRUE

\* keys yields every name; values and entries test isFile / isDirectory
Yields(op, e) == op = "keys" \/ e.kind \in {"file", "directory"}

\* what the generator yields for a listed entry: lines 136, 147-153, 164-170
Item(op, e) ==
  IF op = "keys" THEN [key |-> e.name, handle |-> NoHandle]
  ELSE LET h == Handle(e.kind, e.name, Join(Root, e.name))
       IN IF op = "values" THEN [key |-> "", handle |-> h]
          ELSE [key |-> e.name, handle |-> h]

\* mutant: the directory is listed again at every step
EntriesArray_relisted(it, fresh) == fresh

\* the entries array of a generator that has listed: it is a local constant
EntriesArray(it, fresh) == it.listing

\* the loop runs on from pos to its next yield, or to its end
Resumed(it, l) ==
  LET next == {k \in (it.pos + 1)..Len(l) : Yields(it.op, l[k])}
  IN IF next = {}
       THEN [it EXCEPT !.pc = "done", !.listing = l, !.pos = Len(l), !.out = NoItem]
       ELSE LET k == CHOOSE m \in next : \A n \in next : m <= n
            IN [it EXCEPT !.pc = "listed", !.listing = l, !.pos = k,
                          !.out = Item(it.op, l[k]),
                          !.given = @ \cup {l[k].name}]

\* keys(), values(), entries() or [Symbol.asyncIterator]() on the root handle:
\* the generator object is made, none of its code runs (the second
\* iteration is one by keys())
Iter_begin(i, via) ==
  /\ iter[i].pc \in {"idle", "done"}
  /\ i = 1 \/ via = "keys"
  /\ iter' = [iter EXCEPT ![i] = [NoIter EXCEPT !.via = via, !.pc = "fresh",
                                                !.op = GeneratorOf(via)]]
  /\ UNCHANGED <<fileVars, dirVars, nav, inode, same, mtime, snap, ops>>

\* next() on the generator: the first one lists the directory
Iter_next(i) ==
  /\ iter[i].pc \in {"fresh", "listed"}
  /\ \E fresh \in Readdir(iter[i].op, tree, Root) :
       iter' = [iter EXCEPT ![i] =
                  Resumed(@, IF @.pc = "fresh" THEN fresh ELSE EntriesArray(@, fresh))]
  /\ UNCHANGED <<fileVars, dirVars, nav, inode, same, mtime, snap, ops>>

\* another actor makes an entry that is neither a file nor a directory
Other_mknod(p) ==
  /\ ParentOk(tree, p)
  /\ tree[p].kind = "none"
  /\ tree' = [tree EXCEPT ![p] = Special]
  /\ UNCHANGED <<held, call>>
  /\ UNCHANGED <<fileVars, restVars>>

\* iterations of the root directory, among other actors
NextIter ==
  \/ \E i \in Iterators, via \in {"keys", "values", "entries", "asyncIterator"} :
        Iter_begin(i, via)
  \/ \E i \in Iterators : Iter_next(i)
  \/ \E n \in TopNames : Other_writeFile(<<n>>)
  \/ \E n \in TopNames : Other_mkdir(<<n>>)
  \/ \E n \in TopNames : Other_mknod(<<n>>)
  \/ \E n \in TopNames : Other_remove(<<n>>)

SpecIter == Init /\ [][NextIter]_vars

\* ------------------------- Writable Stream, calls not awaited, by await
\* the one stream of a behaviour
Queue_createWritable(keepExistingData) ==
  /\ stream.init = "none"
  /\ createWritable(keepExistingData)

\* mutant: a rejected open leaves its awaiters waiting
InitSettled_onSuccess == stream.init = "opened"

\* await this._initPromise returns or throws: lines 34 and 110
InitSettled == stream.init \in {"opened", "failed"}

\* close() has been called on the stream's descriptor
Released == \E i \in Slots : ops[i].closing

\* a host call of another call is outstanding on the descriptor
Busy(i) == \E j \in Slots \ {i} : ops[j].pc \in {"write", "truncate", "sync"}

\* continuations are run in the order the awaits were reached; close()
\* awaits the open directly and may pass a write() or truncate() that
\* awaits it through _ensureOpen()
Turn(i) ==
  \A j \in 1..(i - 1) :
    ops[j].pc = "init" => (ops[i].op = "close" /\ ops[j].op # "close")

Finished(o, res) == [o EXCEPT !.pc = "done", !.res = res]

\* the caller invokes write(data), truncate(size) or close(): the code up
\* to the first await
Op_call(op, data, size) ==
  /\ stream.init # "none"
  /\ \E i \in Slots :
       /\ ops[i].pc = "idle"
       /\ \A j \in 1..(i - 1) : ops[j].pc # "idle"
       /\ LET o == [NoOp EXCEPT !.op = op, !.data = data, !.size = size,
                                !.late = \E j \in 1..(i - 1) : ops[j].op = "close"]
          IN ops' = [ops EXCEPT ![i] =
                       IF op = "close" /\ stream.closed
                         THEN Finished(o, "ok")
                         ELSE [o EXCEPT !.pc = "init"]]
  /\ UNCHANGED <<fileVars, dirVars, nav, inode, same, mtime, snap, iter>>

\* the call resumes after the deferred open: _ensureOpen's check, then the
\* first host call on the descriptor
Op_resume(i) ==
  /\ ops[i].pc = "init"
  /\ InitSettled
  /\ Turn(i)
  /\ LET o == ops[i]
     IN IF o.op = "close"
          THEN IF stream.init = "failed"
                 THEN /\ ops' = [ops EXCEPT ![i] = Finished(o, "ENOENT")]
                      /\ UNCHANGED stream
               ELSE IF stream.fd = "null"
                 THEN /\ ops' = [ops EXCEPT ![i] = Finished(o, "ok")]
                      /\ stream' = [stream EXCEPT !.closed = TRUE]
               ELSE IF Released
                 THEN /\ ops' = [ops EXCEPT ![i] =
                                   Finished([o EXCEPT !.acted = TRUE], "EBADF")]
                      /\ UNCHANGED stream
               ELSE /\ ops' = [ops EXCEPT ![i] =
                                 [o EXCEPT !.pc = "sync", !.acted = TRUE,
                                           !.live = TRUE]]
                    /\ UNCHANGED stream
          ELSE /\ UNCHANGED stream
               /\ IF EnsureOpen # "ok"
                    THEN ops' = [ops EXCEPT ![i] = Finished(o, EnsureOpen)]
                  ELSE IF Released
                    THEN ops' = [ops EXCEPT ![i] =
                                   Finished([o EXCEPT !.acted = TRUE,
                                                      !.pos = stream.position],
                                            "EBADF")]
                  ELSE ops' = [ops EXCEPT ![i] =
                                 [o EXCEPT !.pc = o.op, !.acted = TRUE,
                                           !.live = TRUE,
                                           !.pos = stream.position]]
  /\ UNCHANGED <<exists, content, handle, sah, last, hist>>
  /\ UNCHANGED <<dirVars, nav, inode, same, mtime, snap, iter>>

\* the host call of the call returns, and the call runs to its next await
\* or to its end
Op_complete(i) ==
  /\ ops[i].pc \in {"write", "truncate", "sync", "close"}
  /\ LET o == ops[i]
     IN CASE o.pc = "write" ->
               /\ content' = FsWrite(content, o.data, o.pos)
               /\ stream' = [stream EXCEPT !.position = @ + Len(o.data)]
               /\ ops' = [ops EXCEPT ![i] = Finished(o, "ok")]
          [] o.pc = "truncate" ->
               /\ content' = FsTruncate(content, o.size)
               /\ ops' = [ops EXCEPT ![i] = Finished(o, "ok")]
               /\ UNCHANGED stream
          [] o.pc = "sync" ->
               /\ ops' = [ops EXCEPT ![i] = [o EXCEPT !.pc = "close",
                                                      !.closing = TRUE]]
               /\ UNCHANGED <<content, stream>>
          [] o.pc = "close" ->
               /\ ~Busy(i)
               /\ stream' = [stream EXCEPT !.fd = "null", !.closed = TRUE]
               /\ ops' = [ops EXCEPT ![i] = Finished(o, "ok")]
               /\ UNCHANGED content
  /\ UNCHANGED <<exists, handle, sah, last, hist>>
  /\ UNCHANGED <<dirVars, nav, inode, same, mtime, snap, iter>>

NextQueue ==
  \/ \E create \in BOOLEAN : getFileHandle(create)
  \/ removeEntry
  \/ \E keep \in BOOLEAN : Queue_createWritable(keep)
  \/ Stream_init
  \/ \E op \in {"write", "truncate", "close"}, data \in QueueData,
        size \in QueueSizes : Op_call(op, data, size)
  \/ \E i \in Slots : Op_resume(i)
  \/ \E i \in Slots : Op_complete(i)

SpecQueue == Init /\ [][NextQueue]_vars

\* every host call returns, and every continuation is run
SpecQueueFair ==
  /\ SpecQueue
  /\ WF_vars(Stream_init)
  /\ \A i \in Slots : WF_vars(Op_resume(i)) /\ WF_vars(Op_complete(i))

\* lookups and removals on a tree where the host refuses some entries
NextFault ==
  \/ \E op \in {"getFileHandle", "getDirectoryHandle", "removeEntry"},
        dir \in DirPaths, name \in TopNames \cup SubNames, flag \in BOOLEAN :
          Dir_call(op, dir, name, flag)
  \/ Dir_getFileHandle
  \/ Dir_getDirectoryHandle
  \/ Dir_removeEntry
  \/ \E p \in Paths : Other_writeFile(p)
  \/ \E p \in Paths : Other_mkdir(p)
  \/ \E p \in Paths : Other_deny(p)

SpecFault == Init /\ [][NextFault]_vars

\* createWritable and the stream's deferred open, among other actors
NextOpen ==
  \/ \E create \in BOOLEAN : getFileHandle(create)
  \/ \E keep \in BOOLEAN : createWritable(keep)
  \/ Stream_init
  \/ \E data \in {d \in Data : Len(d) <= 1} : Other_write(data)
  \/ Writable_close

SpecOpen == Init /\ [][NextOpen]_vars

\* handles reached by lookups, and resolve() between them
NextPath ==
  \/ \E kind \in {"file", "directory"}, name \in NameArgs : Nav_lookup(kind, name)
  \/ Nav_rebase
  \/ Nav_getDirectory
  \/ Nav_resolve

SpecPath == Init /\ [][NextPath]_vars

\* ================================================================ claims
\* new holds d at offsets [p, p+Len(d)) and agrees with old everywhere else
OverwritesExactly(old, new, p, d) ==
  /\ \A i \in 1..Len(d) : p + i <= Len(new) /\ new[p + i] = d[i]
  /\ \A i \in 1..Len(old) :
       (i <= p \/ i > p + Len(d)) => (i <= Len(new) /\ new[i] = old[i])
  /\ Len(new) <= Max(Len(old), p + Len(d))

\* the call that completed last is a successful position-omitted write
SequentialWrite(c) ==
  /\ c.op = "write" /\ c.res = "ok"
  /\ \/ c.arg.type = "raw"
     \/ c.arg.type = "write" /\ c.arg.position = Undefined

\* the stream was made with default options, and nothing but one successful
\* position-omitted write has happened to it or to the file since
OneWriteThenClosed ==
  /\ stream.closed /\ ~stream.keepExistingData
  /\ hist.pure /\ hist.alone /\ hist.nwrites = 1

\* C1: round trip - createWritable() with default options, write(b),
\* close(), getFile() yields exactly b, whatever the file held before.
C1_RoundTrip ==
  (last.op = "getFile" /\ OneWriteThenClosed)
    => (last.res = "ok" /\ last.out = hist.written)

C1_Witness ==
  /\ last.op = "getFile" /\ OneWriteThenClosed
  /\ hist.prior
  /\ Len(last.out) = MaxData /\ last.out[1] # last.out[2]

\* C2: position-omitted writes on a fresh default stream concatenate in call
\* order, and after each of them the cursor is the sum of the lengths written.
C2_Concatenation ==
  (stream.init = "opened" /\ ~stream.keepExistingData /\ hist.pure /\ hist.alone)
    => /\ exists
       /\ content = hist.written
       /\ stream.position = Len(hist.written)

C2_Witness ==
  /\ stream.closed /\ ~stream.keepExistingData /\ hist.pure /\ hist.alone
  /\ hist.nwrites = Many
  /\ Len(content) = MaxLen /\ content[1] # content[MaxLen]
  /\ last.op = "getFile"

\* C3: write({type:'write', position:p, data:d}) changes exactly the bytes
\* [p, p+len(d)) to d; every other byte and the cursor stay as they were.
C3_PositionalWrite ==
  [][(/\ last'.op = "write" /\ last'.res = "ok"
      /\ last'.arg.type = "write" /\ last'.arg.position # Undefined)
       => /\ OverwritesExactly(content, content', last'.arg.position, last'.arg.data)
          /\ stream'.position = stream.position
          /\ exists' = exists]_vars

C3_Witness ==
  /\ last.op = "write" /\ last.res = "ok" /\ last.arg.type = "write"
  /\ last.arg.position = 1 /\ Len(last.arg.data) = 1
  /\ Len(content) = MaxLen /\ content[2] = last.arg.data[1]
  /\ content[1] # content[2] /\ content[3] # content[2]
  /\ stream.position = MaxLen

\* C4: write({type:'seek', position:p}) does no file I/O and sets the cursor
\* to p; the position-omitted write(d) that follows overwrites exactly
\* [p, p+len(d)) and moves the cursor to p+len(d).
C4_SeekThenWrite ==
  [][/\ (/\ last'.op = "write" /\ last'.res = "ok"
         /\ last'.arg.type = "seek" /\ last'.arg.position # Undefined)
          => /\ last'.fs = 0
             /\ content' = content /\ exists' = exists
             /\ stream'.position = last'.arg.position
     /\ (/\ last.op = "write" /\ last.res = "ok"
         /\ last.arg.type = "seek" /\ last.arg.position # Undefined
         /\ SequentialWrite(last'))
          => /\ OverwritesExactly(content, content', last.arg.position, last'.arg.data)
             /\ stream'.position = last.arg.position + Len(last'.arg.data)]_vars

C4_Witness ==
  /\ SequentialWrite(last) /\ last.prev = "seek"
  /\ Len(last.arg.data) = 1
  /\ Len(content) = MaxLen /\ stream.position = 2
  /\ content[2] = last.arg.data[1]
  /\ content[1] # content[2] /\ content[3] # content[2]

\* C5: write({type:'truncate', size:n}) sets the file length to exactly n at
\* once (bytes below min(n, old length) kept, the extension zero), leaves the
\* cursor alone, and a close() that follows leaves a file of exactly n bytes.
C5_TruncateTag ==
  [][/\ (/\ last'.op = "write" /\ last'.res = "ok"
         /\ last'.arg.type = "truncate" /\ last'.arg.size # Undefined)
          => /\ Len(content') = last'.arg.size
             /\ \A i \in 1..Len(content') :
                  content'[i] = IF i <= Len(content) THEN content[i] ELSE 0
             /\ stream' = stream
     /\ (/\ last.op = "write" /\ last.res = "ok"
         /\ last.arg.type = "truncate" /\ last.arg.size # Undefined
         /\ last'.op = "close")
          => /\ last'.res = "ok"
             /\ exists'
             /\ Len(content') = last.arg.size]_vars

C5_Witness ==
  /\ last.op = "close" /\ last.res = "ok" /\ last.prev = "truncate"
  /\ stream.closed
  /\ Len(content) = 2 /\ content[1] = 1 /\ content[2] = 0
  /\ stream.position = MaxLen

\* C6: when createWritable returns, the file is empty if keepExistingData is
\* false or omitted, and holds its previous bytes if it is true; closing that
\* stream without writing leaves them unchanged.
C6_CreateWritable ==
  [][/\ (last'.op = "createWritable" /\ ~stream'.keepExistingData)
          => (exists' /\ content' = <<>>)
     /\ (last'.op = "createWritable" /\ stream'.keepExistingData)
          => (exists' = exists /\ content' = content)
     /\ (stream.keepExistingData /\ last'.op \in {"_init", "close"})
          => (exists' = exists /\ content' = content)]_vars

C6_Witness ==
  /\ last.op = "close" /\ last.res = "ok" /\ stream.closed
  /\ stream.keepExistingData
  /\ hist.pure /\ hist.nwrites = 0 /\ hist.alone /\ hist.prior
  /\ Len(content) = MaxLen

\* C7: after close() has completed on a Writable Stream, every later write
\* (raw or tagged), seek() and truncate() fails with the closed-stream error
\* and changes neither the file nor the cursor.
C7_ClosedStreamRejects ==
  [][(stream.closed /\ last'.op \in {"write", "seek", "truncate"})
       => /\ last'.res = "Stream is closed"
          /\ content' = content /\ exists' = exists
          /\ stream'.position = stream.position]_vars

\* C8: close() on a Writable Stream is idempotent - the descriptor is flushed
\* and released exactly once, every call after the first is a no-op, and no
\* close() call fails.
C8_StreamCloseIdempotent ==
  [][last'.op = "close"
       => /\ last'.res = "ok"
          /\ stream'.closed
          /\ hist'.syncs = 1 /\ hist'.closes = 1
          /\ stream.closed => (last'.fs = 0 /\ stream' = stream /\ hist' = hist)
          /\ content' = content /\ exists' = exists]_vars

\* C9: after close() has completed on a Sync Access Handle, read, write,
\* truncate, getSize and flush each fail with the closed-handle error, make
\* no filesystem access and leave the file unchanged.
C9_ClosedHandleRejects ==
  [][(sah.closed /\ last'.op \in {"sah.read", "sah.write", "sah.truncate",
                                  "sah.getSize", "sah.flush"})
       => /\ last'.res = "Access handle is closed"
          /\ last'.fs = 0
          /\ content' = content /\ exists' = exists
          /\ sah' = sah]_vars

C9_Witness ==
  /\ sah.closed
  /\ last.op = "sah.truncate" /\ last.res = "Access handle is closed"
  /\ last.arg.size = 0
  /\ Len(content) = MaxLen

\* C10: close() on a Sync Access Handle is idempotent - the first call
\* releases the descriptor, every later call is a no-op, and none fails.
C10_HandleCloseIdempotent ==
  [][last'.op = "sah.close"
       => /\ last'.res = "ok"
          /\ sah'.closed /\ sah'.fd = "closed" /\ sah'.released = 1
          /\ sah.closed => (last'.fs = 0 /\ sah' = sah)
          /\ content' = content /\ exists' = exists]_vars

C10_Witness ==
  /\ last.op = "sah.close" /\ last.res = "ok" /\ last.fs = 0
  /\ sah.closed /\ sah.released = 1
  /\ content # <<>>

C13_HandleTruncate ==
  [][(sah.fd = "open" /\ last'.op = "sah.truncate")
       => /\ last'.res = "ok"
          /\ Len(content') = last'.arg.size
          /\ \A i \in 1..Len(content') :
               content'[i] = IF i <= Len(content) THEN content[i] ELSE 0]_vars

C13_Witness ==
  /\ sah.fd = "open" /\ last.op = "sah.truncate" /\ last.res = "ok"
  /\ last.arg.size = MaxLen
  /\ Len(content) = MaxLen /\ content[1] = 1 /\ content[MaxLen] = 0
  /\ sah.moved = 1

\* C14: truncate, getSize and flush of a Sync Access Handle complete their
\* filesystem effect before they return: when truncate(n) returns the file
\* has n bytes, and a getSize() called directly after it yields n.
C14_SynchronousEffect ==
  /\ (last.op = "sah.truncate" /\ last.res \in {"pending", "ok"})
       => Len(content) = last.arg.size
  /\ (last.op = "sah.getSize" /\ last.res = "ok" /\ last.arg.size # Undefined)
       => last.n = last.arg.size

\* ------------------------------------------------ Directory Handle claims
\* the step is a host call of the Directory Handle call in progress
CallerStep == call.pc \notin {"idle", "done"} /\ call'.pc # call.pc
Lookups == {"getFileHandle", "getDirectoryHandle"}
Requested(c) == IF c.op = "getFileHandle" THEN "file" ELSE "directory"
Returned(c) == Handle(Requested(c), c.name, Target(c))
LookupDone(c) == c.pc = "done" /\ c.op \in Lookups

\* C15: getFileHandle and getDirectoryHandle on a missing name - without
\* create the call fails with NotFound and changes nothing; with create it
\* makes an empty entry of the requested kind and returns a handle of that
\* name and kind; a later lookup without create returns the same entry.
C15_LookupAndCreate ==
  [][/\ (LookupDone(call') /\ ~call'.flag /\ call'.st = "ENOENT")
          => call'.res = "NotFoundError"
     /\ (CallerStep /\ call.op \in Lookups /\ ~call.flag) => tree' = tree
     /\ (/\ LookupDone(call') /\ call'.flag /\ call'.st = "ENOENT"
         /\ call'.parent /\ call'.others = {})
          => /\ call'.res = "ok" /\ call'.ret = Returned(call')
             /\ tree'[Target(call')] =
                  IF call'.op = "getFileHandle" THEN EmptyFile ELSE Directory
     /\ (LookupDone(call') /\ ~call'.flag /\ call'.st = Requested(call'))
          => (call'.res = "ok" /\ call'.ret = Returned(call'))]_vars

C15_Witness ==
  /\ LookupDone(call) /\ call.op = "getFileHandle" /\ call.flag
  /\ call.st = "ENOENT" /\ call.from = "writeFile" /\ call.res = "ok"
  /\ call.others = {} /\ call.dir = <<"a">>
  /\ tree[<<"a", "c">>] = EmptyFile /\ tree[<<"b">>] = WrittenFile

\* C16: getFileHandle on a name whose entry is a directory fails with the
\* type-mismatch error, with and without create, never with NotFound.
C16_FileLookupOnDirectory ==
  (call.pc = "done" /\ call.op = "getFileHandle" /\ call.st = "directory")
    => (call.res = "TypeError" /\ call.res # "NotFoundError")

\* C17: getDirectoryHandle on a name whose entry is a regular file fails with
\* the type-mismatch error, with and without create, and leaves the file and
\* its content unchanged.
C17_DirectoryLookupOnFile ==
  [][/\ (/\ call'.pc = "done" /\ call'.op = "getDirectoryHandle"
         /\ call'.st = "file" /\ call'.others = {})
          => call'.res = "TypeError"
     /\ (/\ CallerStep /\ call.op = "getDirectoryHandle"
         /\ call'.st = "file" /\ call'.others = {})
          => tree' = tree]_vars

C17_Witness ==
  /\ call.pc = "done" /\ call.op = "getDirectoryHandle" /\ call.flag
  /\ call.st = "file" /\ call.from = "restat" /\ call.res = "TypeError"
  /\ call.others = {}
  /\ tree[Target(call)] = WrittenFile

\* C18: getFileHandle(name, {create: true}) never changes the content of a
\* file that exists at name, also not of one that another caller created and
\* wrote after this call found the name absent.
C18_CreateKeepsContent ==
  [][(CallerStep /\ call.op = "getFileHandle")
       => \A p \in Paths : tree[p].kind = "file" => tree'[p] = tree[p]]_vars

\* C19: callers that run getDirectoryHandle(name, {create: true}) for one
\* name, in any interleaving and with no one removing the entry, all succeed
\* with a Directory Handle for name; a creation conflict is never surfaced.
C19_ConcurrentMkdir ==
  (/\ call.pc = "done" /\ call.op = "getDirectoryHandle" /\ call.flag
   /\ call.st \in {"ENOENT", "directory"} /\ call.parent
   /\ call.others \subseteq {"mkdir"})
    => /\ call.res = "ok" /\ call.res # "EEXIST"
       /\ call.ret = Returned(call)
       /\ tree[Target(call)] = Directory

C19_Witness ==
  /\ call.pc = "done" /\ call.op = "getDirectoryHandle" /\ call.flag
  /\ call.st = "ENOENT" /\ call.others = {"mkdir"}
  /\ call.from = "restat" /\ call.res = "ok"
  /\ tree[Target(call)] = Directory

\* C20: removeEntry(name) without recursive on a directory that has a child
\* fails with InvalidModification and leaves the directory and everything
\* beneath it unchanged.
C20_RemoveNonEmpty ==
  [][/\ (/\ CallerStep /\ call.op = "removeEntry" /\ ~call.flag
         /\ call.pc = "readdir"
         /\ FsStat(tree, Target(call)) = "directory"
         /\ Children(tree, Target(call)) # {})
          => /\ call'.pc = "done"
             /\ call'.res = "InvalidModificationError"
             /\ tree' = tree
     /\ (CallerStep /\ call.op = "removeEntry" /\ call.pc = "stat")
          => tree' = tree
     /\ (/\ call'.pc = "done" /\ call'.op = "removeEntry" /\ ~call'.flag
         /\ call'.st = "directory" /\ call'.others = {}
         /\ Children(tree', Target(call')) # {})
          => call'.res = "InvalidModificationError"]_vars

C20_Witness ==
  /\ call.pc = "done" /\ call.op = "removeEntry" /\ ~call.flag
  /\ call.st = "directory" /\ call.others = {}
  /\ call.res = "InvalidModificationError"
  /\ Target(call) = <<"a">>
  /\ tree[<<"a">>] = Directory /\ tree[<<"a", "c">>] = WrittenFile

\* C21: removeEntry succeeds on a file, on an empty directory, and with
\* recursive on a directory of any contents, whose whole subtree it removes;
\* after it succeeds both lookups of the name without create fail with
\* NotFound, and every entry outside the removed one is unchanged.
C21_RemoveSucceeds ==
  [][/\ (/\ CallerStep /\ call.op = "removeEntry"
         /\ call.pc \in {"rm", "rmdir", "unlink"})
          => LET p == Target(call)
             IN /\ \A q \in Paths \ ({p} \cup Below(p)) : tree'[q] = tree[q]
                /\ call'.res = "ok"
                     => /\ \A q \in {p} \cup Below(p) : tree'[q] = Absent
                        /\ GetFile_afterStat(FsStat(tree', p), FALSE)
                             = Done("NotFoundError")
                        /\ GetDir_afterStat(FsStat(tree', p), FALSE)
                             = Done("NotFoundError")
     /\ (/\ call'.pc = "done" /\ call'.op = "removeEntry"
         /\ call'.parent /\ call'.others = {})
          => /\ call'.st = "file" => call'.res = "ok"
             /\ (call'.st = "directory" /\ call'.flag) => call'.res = "ok"
             /\ (call'.st = "directory" /\ ~call'.flag)
                  => call'.res = IF call'.kids = {} THEN "ok"
                                 ELSE "InvalidModificationError"]_vars

C21_Witness ==
  /\ call.pc = "done" /\ call.op = "removeEntry" /\ call.flag
  /\ call.st = "directory" /\ call.kids = {"c"} /\ call.from = "rm"
  /\ call.res = "ok" /\ call.others = {}
  /\ Target(call) = <<"a">>
  /\ tree[<<"a">>] = Absent /\ tree[<<"a", "c">>] = Absent
  /\ tree[<<"b">>] = WrittenFile

\* C22: removeEntry on a name with no entry fails with NotFound for both
\* values of recursive and changes nothing, also when the entry disappears
\* between the call's inspection of it and its removal.
C22_RemoveMissing ==
  [][/\ (call'.pc = "done" /\ call'.op = "removeEntry" /\ call'.st = "ENOENT")
          => (call'.res = "NotFoundError" /\ call'.from = "stat")
     /\ (/\ CallerStep /\ call.op = "removeEntry"
         /\ FsStat(tree, Target(call)) = "ENOENT")
          => /\ call'.pc = "done" /\ call'.res = "NotFoundError"
             /\ tree' = tree]_vars

C22_Witness ==
  /\ call.pc = "done" /\ call.op = "removeEntry"
  /\ call.st = "directory" /\ call.from \in {"rm", "rmdir"}
  /\ call.others = {"remove"}
  /\ call.res = "NotFoundError"

\* ------------------------------------------------------------ path claims
\* C23: D.resolve(c) returns [] exactly when c has D's path, and null for
\* every c that is neither D nor inside D's subtree, whatever the names (a
\* sibling whose name starts with D's name, an ancestor of D).
C23_ResolveOutside ==
  (nav.asked /\ ~nav.odd)
    => /\ (nav.out = Segments(<<>>)) <=> (nav.c.path = nav.d.path)
       /\ ~Within(Segs(nav.c.path), Segs(nav.d.path)) => nav.out = Null

C25_Containment ==
  nav.names # <<>>
    => /\ Within(Segs(nav.c.path), Segs(BaseDir))
       /\ ~nav.odd => nav.c.path = nav.up \o <<Sep>> \o nav.c.name

\* ------------------------------------------------------ identity claims
\* the entry a handle's path names now, when it can be stat'ed
Statable(h) == FsStat(tree, h.path) \in {"file", "directory"}

\* C26: a.isSameEntry(b) is true exactly when the kinds of a and b are equal
\* and both paths can be stat'ed and report the same device and inode; it is
\* false when the kinds differ or a path cannot be stat'ed, and never raises;
\* two handles for the same existing name are the same entry.
C26_SameEntry ==
  same.pc = "done"
    => /\ same.out = (/\ same.a.kind = same.b.kind
                      /\ same.s1.err = "ok" /\ same.s2.err = "ok"
                      /\ same.s1.ino = same.s2.ino /\ same.s1.dev = same.s2.dev)
       /\ same.quiet
            => /\ same.out = (/\ same.a.kind = same.b.kind
                              /\ Statable(same.a) /\ Statable(same.b)
                              /\ inode[same.a.path] = inode[same.b.path])
               /\ (same.a = same.b /\ Statable(same.a)) => same.out

C26_Witness ==
  /\ same.pc = "done" /\ same.quiet /\ same.out
  /\ same.a = Handle("file", "c", <<"a", "c">>) /\ same.b = same.a
  /\ tree[<<"b">>].kind = "file"

\* C27: the content and the last-modified time getFile() returns both
\* describe the file as it was at one moment of the call, also when another
\* actor writes the file while getFile is running; the snapshot does not
\* change when the file is modified or removed afterwards.
C27_OneMoment ==
  [][/\ (snap'.pc = "done" /\ snap'.res = "ok")
          => snap'.versions[snap'.lastModified + 1] = snap'.buffer
     /\ (snap.pc = "done" /\ snap'.pc = "done")
          => (snap'.buffer = snap.buffer
              /\ snap'.lastModified = snap.lastModified)]_vars

\* ------------------------------------------------------ iteration claims
\* the names of a listing, and those of its files and directories
NamesOf(l) == {l[k].name : k \in 1..Len(l)}
HandleNamesOf(l) == {l[k].name : k \in {j \in 1..Len(l) : l[j].kind # "other"}}

\* C28: an iteration by keys(), values() or entries() takes one directory
\* listing and yields exactly the entries of that listing, each once; entries
\* added or removed afterwards do not change the remaining items, and two
\* iterations each take their own listing and do not affect each other.
C28_OneListing ==
  [][/\ tree' # tree => iter' = iter
     /\ \A i \in Iterators :
          LET was == iter[i]
              now == iter'[i]
          IN now # was =>
               /\ \A j \in Iterators \ {i} : iter'[j] = iter[j]
               /\ (was.pc = "fresh" /\ now.pc \in {"listed", "done"})
                    => /\ NamesOf(now.listing) = Entries(tree, Root)
                       /\ Len(now.listing) = Cardinality(Entries(tree, Root))
               /\ (was.pc = "listed" /\ now.pc \in {"listed", "done"})
                    => now.listing = was.listing
               /\ now.pc = "listed"
                    => /\ now.listing[now.pos].name \notin was.given
                       /\ now.given = was.given \cup {now.listing[now.pos].name}
                       /\ now.pos > was.pos
               /\ now.pc = "done"
                    => /\ now.given = was.given
                       /\ now.given = HandleNamesOf(now.listing)]_vars

C28_Witness ==
  /\ iter[1].pc = "listed" /\ Len(iter[1].listing) = 2
  /\ iter[1].pos = 1 /\ iter[1].via = "values"
  /\ tree[<<iter[1].listing[2].name>>] = Absent
  /\ iter[2].pc = "done" /\ Len(iter[2].listing) = 1
  /\ iter[2].given = {iter[1].listing[1].name}

\* C29: values() and entries() yield a File Handle for a listed regular file
\* and a Directory Handle for a listed directory, named as the entry
\* (entries() with that name as the key), and nothing for an entry of another
\* type; iterating the Directory Handle itself yields what entries() yields.
C29_HandlesByType ==
  \A i \in Iterators :
    LET it == iter[i]
    IN /\ (it.pc = "listed" /\ it.via # "keys")
            => LET e == it.listing[it.pos]
               IN /\ e.kind \in {"file", "directory"}
                  /\ it.out.handle = Handle(e.kind, e.name, <<e.name>>)
                  /\ it.out.key = IF it.via = "values" THEN "" ELSE e.name
       /\ (it.pc = "listed" /\ it.via = "keys")
            => it.out = [key |-> it.listing[it.pos].name, handle |-> NoHandle]
       /\ (it.pc \in {"listed", "done"} /\ it.via # "keys")
            => \A k \in 1..it.pos :
                 (it.listing[k].name \in it.given)
                   <=> (it.listing[k].kind \in {"file", "directory"})

C29_Witness ==
  /\ iter[1].pc = "done" /\ iter[1].via = "asyncIterator"
  /\ Len(iter[1].listing) = 2
  /\ iter[1].listing[1].kind = "other" /\ iter[1].listing[2].kind = "directory"
  /\ iter[1].given = {iter[1].listing[2].name}

\* C30: a write whose argument carries a tag other than write, seek or
\* truncate fails with the unsupported-operand error and changes neither the
\* file, nor the cursor, nor the stream's open/closed state; write, seek and
\* truncate are the only tags accepted.
C30_UnsupportedTag ==
  [][/\ (last'.op = "write" /\ last'.arg.type = "other")
          => /\ last'.res # "ok"
             /\ EnsureOpen = "ok" => last'.res = "Unsupported write type"
             /\ content' = content /\ exists' = exists
             /\ stream' = stream
     /\ (last'.op = "write" /\ last'.res = "ok" /\ last'.arg.type # "raw")
          => last'.arg.type \in {"write", "seek", "truncate"}]_vars

C30_Witness ==
  /\ last.op = "write" /\ last.arg.type = "other"
  /\ last.res = "Unsupported write type"
  /\ last.prev = "write"
  /\ stream.position > 0 /\ ~stream.closed /\ content # <<>>

\* C31: a host failure other than "entry missing" (permission denied, say)
\* met while getFileHandle, getDirectoryHandle or removeEntry inspects the
\* entry reaches the caller as that same failure, never as NotFound or as
\* another named error kind.
C31_HostFailureAsIs ==
  (call.pc = "done" /\ call.from = "stat" /\ call.st = "EACCES")
    => call.res = "EACCES"

\* C32: a stream made by createWritable with keepExistingData false opens its
\* descriptor in preserve mode - the deferred open never truncates the file,
\* so bytes another actor put into it after createWritable returned are still
\* there once the open has completed.
C32_OpenPreserves ==
  [][(/\ stream.init = "pending" /\ ~stream.keepExistingData
      /\ stream'.init = "opened")
       => content' = content]_vars

\* C33: operations issued one after another on the same Writable Stream run
\* in program order - one issued later never reads or updates the cursor,
\* nor touches the file, before every one issued earlier has finished.
C33_ProgramOrder ==
  \A i, j \in Slots : (i < j /\ ops[j].acted) => ops[i].pc = "done"

\* C34: after the deferred open of a Writable Stream failed, every write and
\* truncate on the stream fails with that same failure, and none of them
\* creates or modifies a file.
C34_FailedOpen ==
  [][(stream.init = "failed" /\ last'.op \in {"write", "truncate"})
       => /\ last'.res = "ENOENT" /\ last'.fs = 0
          /\ content' = content /\ exists' = exists
          /\ stream' = stream]_vars

C34_Witness ==
  /\ stream.init = "failed" /\ ~exists
  /\ last.op = "write" /\ last.arg.type = "raw" /\ last.arg.data # <<>>
  /\ last.res = "ENOENT"

\* the number of host calls isSameEntry has issued and not got back
Outstanding ==
  IF same.pc = "stats"
    THEN Cardinality({i \in 1..2 : (IF i = 1 THEN same.s1 ELSE same.s2) = NoStat})
    ELSE 0

\* C35: no operation has two filesystem calls outstanding at the same time;
\* each issues its next filesystem call after the previous one completed.
C35_OneCallAtATime == Outstanding <= 1

\* C36: every write, truncate and close issued on a Writable Stream
\* eventually completes or fails, given that each host call returns; none
\* waits forever on the deferred open, whether it succeeds or fails.
C36_Completes ==
  \A i \in Slots : (ops[i].pc # "idle") ~> (ops[i].pc = "done")

C36_Witness ==
  /\ stream.init = "failed"
  /\ \E i, j \in Slots :
       /\ ops[i].op = "write" /\ ops[i].pc = "done" /\ ops[i].res = "ENOENT"
       /\ ops[j].op = "close" /\ ops[j].pc = "done" /\ ops[j].res = "ENOENT"

\* C37: once close() has been invoked on a Writable Stream, no operation
\* invoked afterwards issues a filesystem call on its descriptor, also not
\* while the close is in flight and has not yet marked the stream closed.
C37_NothingAfterClose ==
  \A i \in Slots : ops[i].late => ~ops[i].live

\* C38: a File Handle never brings a removed entry back - after removeEntry
\* completed, none of getFile, createWritable (either option, the stream's
\* later open included) and createSyncAccessHandle on a handle obtained
\* before makes the name exist again.
C38_StaysRemoved ==
  [][(/\ ~exists
      /\ last'.op \in {"getFile", "createWritable", "_init",
                       "createSyncAccessHandle"})
       => ~exists']_vars

\* C39: removeEntry(name) without recursive never removes a directory that
\* has a child at the moment of removal, also when the child was added after
\* the emptiness check; the call then fails, directory and child remain.
C39_NeverRemovesNonEmpty ==
  [][(/\ CallerStep /\ call.op = "removeEntry" /\ ~call.flag
      /\ FsStat(tree, Target(call)) = "directory"
      /\ Children(tree, Target(call)) # {})
       => (tree' = tree /\ call'.res # "ok")]_vars

C39_Witness ==
  /\ call.pc = "done" /\ call.op = "removeEntry" /\ ~call.flag
  /\ call.from = "rmdir" /\ call.kids = {} /\ call.res = "ENOTEMPTY"
  /\ tree[Target(call)] = Directory
  /\ Children(tree, Target(call)) # {}

====
